---- MODULE Spec2Model ----
(***************************************************************************)
(* A model of readability.FromURL (src/readability.go): URL validation,   *)
(* request construction, the client.Do call with the redirects the client *)
(* follows inside it, gzip normalisation,                                  *)
(* the media-type gate, the dispatch to the extraction engine and the     *)
(* deferred closes.                                                        *)
(*                                                                         *)
(* Strings are sequences.  A URL is a sequence of tokens: the            *)
(* one-character tokens ":", "/", "*", "8" and the letter runs "http" and *)
(* "https" (url.getScheme only distinguishes letters, digits, ':' and the *)
(* rest, so a run of letters behaves as its letters do).  Other header   *)
(* values are sequences of characters and bodies are sequences of bytes   *)
(* 0..255.                                                                 *)
(***************************************************************************)
EXTENDS Integers, Sequences, FiniteSets, TLC

VARIABLES
    pageURL,        \* the string passed to FromURL
    pc,             \* the stage FromURL is about to run, or "done"
    parsedURL,      \* the result of nurl.ParseRequestURI, or None
    req,            \* the request built by http.NewRequest, or None
    resp,           \* the response returned by client.Do, or None
    reader,         \* what `reader` wraps: "none", "body" or "gzip"
    defers,         \* the deferred closes, in the order they were registered
    trace,          \* the events of this invocation, in order
    sent,           \* the requests handed to the transport in this invocation
    redirected,     \* the redirect responses the client consumed and closed inside client.Do
    received,       \* the responses the transport returned in this invocation, in order
    delivered,      \* the bytes the extraction engine read, or None
    result,         \* the (Article, error) pair returned, or None
    engine          \* the engine's verdict on the page: "unknown" until it has parsed it

vars == <<pageURL, pc, parsedURL, req, resp, reader, defers, trace, sent,
          redirected, received, delivered, result, engine>>

None == [none |-> TRUE]

(***************************************************************************)
(* Bounds.                                                                 *)
(***************************************************************************)
MaxURLLen == 4

\* how many times in a row the server answers with a redirect
MaxRedirects == 10

(***************************************************************************)
(* Sequence helpers (package strings).                                     *)
(***************************************************************************)
Drop(s, n) == SubSeq(s, n + 1, Len(s))

Take(s, n) == SubSeq(s, 1, n)

HasPrefix(s, p) == Len(s) >= Len(p) /\ Take(s, Len(p)) = p

\* strings.Contains(s, substr)
Contains(s, substr) ==
    \E i \in 0..(Len(s) - Len(substr)) : SubSeq(s, i + 1, i + Len(substr)) = substr

\* strings.Index(s, c) for a one-element c, 1-based; 0 when absent
Index(s, c) ==
    IF \E i \in 1..Len(s) : s[i] = c
    THEN CHOOSE i \in 1..Len(s) : s[i] = c /\ \A j \in 1..(i - 1) : s[j] # c
    ELSE 0

\* strings.LastIndex(s, c), 1-based; 0 when absent
LastIndex(s, c) ==
    IF \E i \in 1..Len(s) : s[i] = c
    THEN CHOOSE i \in 1..Len(s) : s[i] = c /\ \A j \in (i + 1)..Len(s) : s[j] # c
    ELSE 0

(***************************************************************************)
(* net/url as FromURL uses it, on the token alphabet.  The alphabet has no *)
(* '?', '#', '%', '@', '[' or control character, so the query, fragment,  *)
(* escape, userinfo and IPv6 branches of url.parse are never entered.     *)
(***************************************************************************)
Letters == {"http", "https"}

Digits == {"8"}

\* the tokens page URLs are built from
URLAlphabet == {"http", "8", ":", "/", "*"}

\* page URLs beside those built from the alphabet: "http://8", "https://8",
\* "http://8/8"
SampleURLs ==
    { <<"http", ":", "/", "/", "8">>,
      <<"https", ":", "/", "/", "8">>,
      <<"http", ":", "/", "/", "8", "/", "8">> }

RECURSIVE SeqsUpTo(_, _)
SeqsUpTo(S, n) ==
    IF n = 0 THEN {<<>>}
    ELSE LET shorter == SeqsUpTo(S, n - 1)
         IN  shorter \cup {Append(s, c) : s \in {t \in shorter : Len(t) = n - 1}, c \in S}

URLStrings == SeqsUpTo(URLAlphabet, MaxURLLen) \cup SampleURLs

\* url.getScheme: (scheme, rest) or an error
RECURSIVE getSchemeFrom(_, _)
getSchemeFrom(rawURL, i) ==
    IF i > Len(rawURL) THEN [err |-> "", scheme |-> <<>>, rest |-> rawURL]
    ELSE IF rawURL[i] \in Letters THEN getSchemeFrom(rawURL, i + 1)
    ELSE IF rawURL[i] \in Digits \cup {"+", "-", "."}
         THEN IF i = 1 THEN [err |-> "", scheme |-> <<>>, rest |-> rawURL]
              ELSE getSchemeFrom(rawURL, i + 1)
    ELSE IF rawURL[i] = ":"
         THEN IF i = 1 THEN [err |-> "missing protocol scheme", scheme |-> <<>>, rest |-> <<>>]
              ELSE [err |-> "", scheme |-> Take(rawURL, i - 1), rest |-> Drop(rawURL, i)]
    ELSE [err |-> "", scheme |-> <<>>, rest |-> rawURL]

getScheme(rawURL) == getSchemeFrom(rawURL, 1)

\* url.validOptionalPort
validOptionalPort(port) ==
    \/ port = <<>>
    \/ /\ port[1] = ":"
       /\ \A i \in 2..Len(port) : port[i] \in Digits

\* url.parseHost (no '[' in the alphabet): the host, or an error
parseHost(host) ==
    LET i == LastIndex(host, ":")
    IN  IF i # 0 /\ ~validOptionalPort(Drop(host, i - 1))
        THEN [err |-> "invalid port after host", host |-> <<>>]
        ELSE [err |-> "", host |-> host]

URLError(msg) ==
    [err |-> msg, Scheme |-> <<>>, Opaque |-> <<>>, Host |-> <<>>, Path |-> <<>>,
     OmitHost |-> FALSE]

\* url.parse(rawURL, viaRequest)
parse(rawURL, viaRequest) ==
    IF rawURL = <<>> /\ viaRequest THEN URLError("empty url")
    ELSE IF rawURL = <<"*">>
    THEN [err |-> "", Scheme |-> <<>>, Opaque |-> <<>>, Host |-> <<>>, Path |-> <<"*">>,
          OmitHost |-> FALSE]
    ELSE
    LET gs == getScheme(rawURL)
        rest == gs.rest
    IN  IF gs.err # "" THEN URLError(gs.err)
        ELSE IF ~HasPrefix(rest, <<"/">>) /\ gs.scheme # <<>>
        THEN [err |-> "", Scheme |-> gs.scheme, Opaque |-> rest, Host |-> <<>>, Path |-> <<>>,
              OmitHost |-> FALSE]
        ELSE IF ~HasPrefix(rest, <<"/">>) /\ viaRequest
        THEN URLError("invalid URI for request")
        ELSE IF ~HasPrefix(rest, <<"/">>) /\ Contains(Take(rest, IF Index(rest, "/") = 0 THEN Len(rest) ELSE Index(rest, "/") - 1), <<":">>)
        THEN URLError("first path segment in URL cannot contain colon")
        ELSE IF /\ gs.scheme # <<>> \/ (~viaRequest /\ ~HasPrefix(rest, <<"/", "/", "/">>))
                /\ HasPrefix(rest, <<"/", "/">>)
        THEN LET after == Drop(rest, 2)
                 slash == Index(after, "/")
                 authority == IF slash = 0 THEN after ELSE Take(after, slash - 1)
                 path == IF slash = 0 THEN <<>> ELSE Drop(after, slash - 1)
                 h == parseHost(authority)
             IN  IF h.err # "" THEN URLError(h.err)
                 ELSE [err |-> "", Scheme |-> gs.scheme, Opaque |-> <<>>, Host |-> h.host, Path |-> path,
                       OmitHost |-> FALSE]
        ELSE [err |-> "", Scheme |-> gs.scheme, Opaque |-> <<>>, Host |-> <<>>, Path |-> rest,
              OmitHost |-> gs.scheme # <<>> /\ HasPrefix(rest, <<"/">>)]

\* nurl.ParseRequestURI
ParseRequestURI(rawURL) == parse(rawURL, TRUE)

\* nurl.Parse (no '#' in the alphabet, so there is no fragment to split off)
Parse(rawURL) == parse(rawURL, FALSE)

\* http.removeEmptyPort
removeEmptyPort(host) ==
    IF LastIndex(host, ":") # 0 /\ host[Len(host)] = ":" THEN Take(host, Len(host) - 1) ELSE host

(***************************************************************************)
(* hash/crc32 with the IEEE polynomial.  A 32-bit word is the pair of its  *)
(* 16-bit halves, <<low, high>>.                                           *)
(***************************************************************************)
\* a ^ b on natural numbers
RECURSIVE XorInt(_, _)
XorInt(a, b) ==
    IF a = 0 THEN b
    ELSE IF b = 0 THEN a
    ELSE ((a + b) % 2) + 2 * XorInt(a \div 2, b \div 2)

XorWord(a, b) == <<XorInt(a[1], b[1]), XorInt(a[2], b[2])>>

\* ^a
NotWord(a) == <<65535 - a[1], 65535 - a[2]>>

ZeroWord == <<0, 0>>

\* the four bytes of a word, least significant first
WordBytes(w) == <<w[1] % 256, w[1] \div 256, w[2] % 256, w[2] \div 256>>

\* the four bytes of a small natural number, least significant first
NatBytes(n) == <<n % 256, (n \div 256) % 256, (n \div 65536) % 256, (n \div 16777216) % 256>>

\* crc32.IEEE = 0xedb88320
IEEE == <<33568, 60856>>

\* one bit of the reflected CRC: crc>>1, xor the polynomial if the low bit was set
crcShift(c) ==
    LET s == <<(c[1] \div 2) + 32768 * (c[2] % 2), c[2] \div 2>>
    IN  IF c[1] % 2 = 1 THEN XorWord(s, IEEE) ELSE s

RECURSIVE crcShiftN(_, _)
crcShiftN(c, n) == IF n = 0 THEN c ELSE crcShiftN(crcShift(c), n - 1)

\* the bytes of p in turn: xor the byte into the low bits, then eight shifts
\* (the test on d only makes d a value before the next byte is taken)
RECURSIVE crcBytes(_, _)
crcBytes(c, p) ==
    IF p = <<>> THEN c
    ELSE LET d == crcShiftN(<<XorInt(c[1], Head(p)), c[2]>>, 8)
         IN  IF d[1] >= 0 THEN crcBytes(d, Tail(p)) ELSE d

\* crc32.Update(crc, crc32.IEEETable, p)
crc32Update(crc, p) == NotWord(crcBytes(NotWord(crc), p))

\* crc32.ChecksumIEEE(p)
ChecksumIEEE(p) == crc32Update(ZeroWord, p)

(***************************************************************************)
(* compress/gzip and compress/flate as gzip.NewReader and Reader.Read      *)
(* behave on a byte sequence.  Deflate blocks of type 0 (stored) and 3     *)
(* (reserved) are modelled; the bodies of the model hold no Huffman block  *)
(* (types 1 and 2), and Inflate is left undefined on them.                 *)
(***************************************************************************)
gzipID1 == 31

gzipID2 == 139

gzipDeflate == 8

flagHdrCrc == 2

flagExtra == 4

flagName == 8

flagComment == 16

\* len(z.buf): Reader.buf is a [512]byte
gzipBufLen == 512

HasFlag(flg, f) == (flg \div f) % 2 = 1

Uint16(r, pos) == r[pos] + 256 * r[pos + 1]

\* the FEXTRA field: st is [err, pos], pos the next unread byte
hdrExtra(r, flg, st) ==
    IF st.err # "" \/ ~HasFlag(flg, flagExtra) THEN st
    ELSE IF st.pos + 1 > Len(r) THEN [err |-> "unexpected EOF", pos |-> st.pos]
    ELSE IF st.pos + 1 + Uint16(r, st.pos) > Len(r) THEN [err |-> "unexpected EOF", pos |-> st.pos]
    ELSE [err |-> "", pos |-> st.pos + 2 + Uint16(r, st.pos)]

\* Reader.readString: a NUL-terminated string (FNAME, FCOMMENT), read byte by
\* byte into z.buf; the NUL must be among the first len(z.buf) bytes
hdrString(r, present, st) ==
    IF st.err # "" \/ ~present THEN st
    ELSE
    LET last == IF Len(r) < st.pos + gzipBufLen - 1 THEN Len(r) ELSE st.pos + gzipBufLen - 1
    IN  IF \E i \in st.pos..last : r[i] = 0
        THEN [err |-> "", pos |-> 1 + CHOOSE i \in st.pos..last : r[i] = 0 /\ \A j \in st.pos..(i - 1) : r[j] # 0]
        ELSE IF last - st.pos + 1 >= gzipBufLen
        THEN [err |-> "gzip: invalid header", pos |-> st.pos]
        ELSE [err |-> "unexpected EOF", pos |-> st.pos]

\* the FHCRC field: the low 16 bits of the CRC-32 of the header read so far
hdrCrc(r, flg, st) ==
    IF st.err # "" \/ ~HasFlag(flg, flagHdrCrc) THEN st
    ELSE IF st.pos + 1 > Len(r) THEN [err |-> "unexpected EOF", pos |-> st.pos]
    ELSE LET digest == WordBytes(ChecksumIEEE(Take(r, st.pos - 1)))
         IN  IF <<r[st.pos], r[st.pos + 1]>> # <<digest[1], digest[2]>>
             THEN [err |-> "gzip: invalid header", pos |-> st.pos]
             ELSE [err |-> "", pos |-> st.pos + 2]

\* Reader.readHeader on the unread bytes r: an error, or the position of the
\* first byte of the deflate stream
readHeader(r) ==
    IF Len(r) < 10 THEN [err |-> IF r = <<>> THEN "EOF" ELSE "unexpected EOF", pos |-> 1]
    ELSE IF r[1] # gzipID1 \/ r[2] # gzipID2 \/ r[3] # gzipDeflate
    THEN [err |-> "gzip: invalid header", pos |-> 1]
    ELSE LET flg == r[4]
         IN  hdrCrc(r, flg,
                 hdrString(r, HasFlag(flg, flagComment),
                     hdrString(r, HasFlag(flg, flagName),
                         hdrExtra(r, flg, [err |-> "", pos |-> 11]))))

\* flate decompressor: the blocks from pos on.  err = "" when the final block
\* ended; data holds what was decoded, also when an error ended the stream.
RECURSIVE Inflate(_, _)
Inflate(r, pos) ==
    IF pos > Len(r) THEN [err |-> "unexpected EOF", data |-> <<>>, pos |-> pos]
    ELSE
    LET final == r[pos] % 2 = 1
        typ == (r[pos] \div 2) % 4
    IN  CASE typ = 3 -> [err |-> "flate: corrupt input", data |-> <<>>, pos |-> pos]
          [] typ = 0 ->
             IF pos + 4 > Len(r) THEN [err |-> "unexpected EOF", data |-> <<>>, pos |-> pos]
             ELSE
             LET n == Uint16(r, pos + 1)
                 nn == Uint16(r, pos + 3)
                 start == pos + 5
             IN  IF nn # 65535 - n THEN [err |-> "flate: corrupt input", data |-> <<>>, pos |-> pos]
                 ELSE IF start + n - 1 > Len(r)
                 THEN [err |-> "unexpected EOF", data |-> SubSeq(r, start, Len(r)), pos |-> Len(r) + 1]
                 ELSE IF final
                 THEN [err |-> "", data |-> SubSeq(r, start, start + n - 1), pos |-> start + n]
                 ELSE LET more == Inflate(r, start + n)
                      IN  [err |-> more.err,
                           data |-> SubSeq(r, start, start + n - 1) \o more.data,
                           pos |-> more.pos]

\* gzip.Reader.Read to the end (multistream): the gzip members of r in turn.
\* err = "EOF" is the clean end of the stream.
RECURSIVE gzipRead(_)
gzipRead(r) ==
    LET h == readHeader(r)
    IN  IF h.err # "" THEN [data |-> <<>>, err |-> h.err]
        ELSE
        LET inf == Inflate(r, h.pos)
        IN  IF inf.err # "" THEN [data |-> inf.data, err |-> inf.err]
            ELSE IF inf.pos + 7 > Len(r) THEN [data |-> inf.data, err |-> "unexpected EOF"]
            ELSE IF \/ SubSeq(r, inf.pos, inf.pos + 3) # WordBytes(ChecksumIEEE(inf.data))
                    \/ SubSeq(r, inf.pos + 4, inf.pos + 7) # NatBytes(Len(inf.data))
            THEN [data |-> inf.data, err |-> "gzip: invalid checksum"]
            ELSE LET next == gzipRead(Drop(r, inf.pos + 7))
                 IN  [data |-> inf.data \o next.data, err |-> next.err]

\* a NewReader that checks the whole stream before it returns
NewReaderWholeStream(r) ==
    LET all == gzipRead(r)
    IN  IF readHeader(r).err # "" THEN readHeader(r).err
        ELSE IF all.err = "EOF" THEN "" ELSE all.err

\* a NewReader that reads nothing until the first Read
NewReaderLazy(r) == ""

\* gzip.NewReader(r): the error of reading the first header ("" for nil)
NewReader(r) == readHeader(r).err

\* What a server's gzip encoder sends for content b: RFC 1952 header, one
\* final stored deflate block, CRC-32 and ISIZE.
GzipEncode(b) ==
    <<31, 139, 8, 0, 0, 0, 0, 0, 0, 255>>
    \o <<1, Len(b) % 256, Len(b) \div 256, 255 - (Len(b) % 256), 255 - (Len(b) \div 256)>>
    \o b
    \o WordBytes(ChecksumIEEE(b))
    \o NatBytes(Len(b))

(***************************************************************************)
(* The values the environment supplies: header values and bodies.          *)
(***************************************************************************)
\* "gzip"
GzipToken == <<"g", "z", "i", "p">>

\* "text/html"
TextHTML == <<"t", "e", "x", "t", "/", "h", "t", "m", "l">>

\* "text/plain"
TextPlain == <<"t", "e", "x", "t", "/", "p", "l", "a", "i", "n">>

\* "text/html; charset=utf-8"
TextHTMLCharset == <<"t", "e", "x", "t", "/", "h", "t", "m", "l", ";", " ", "c", "h", "a", "r", "s", "e", "t", "=", "u", "t", "f", "-", "8">>

\* Content-Encoding values; <<>> is an absent header (Header.Get returns "").
\* "gzip", "GZIP", "gzip, deflate"
ContentEncodings ==
    { <<>>, GzipToken,
      <<"G", "Z", "I", "P">>,
      <<"g", "z", "i", "p", ",", " ", "d", "e", "f", "l", "a", "t", "e">> }

\* Content-Type values; <<>> is an absent header.
ContentTypes == { <<>>, TextHTML, TextHTMLCharset, TextPlain }

\* the status codes of the responses client.Do returns; a 302 here has no
\* Location header, so the client does not follow it
StatusCodes == {200, 302, 404, 500}

\* the Location header of the redirects the server answers with: "/", "8",
\* ":" (does not parse), "http:/8" (no host) and "http://8/"
Locations ==
    { <<"/">>,
      <<"8">>,
      <<":">>,
      <<"http", ":", "/", "8">>,
      <<"http", ":", "/", "/", "8", "/">> }

\* "<p>"
Para == <<60, 112, 62>>

\* "<p>hello</p>"
ParaHello == <<60, 112, 62, 104, 101, 108, 108, 111, 60, 47, 112, 62>>

\* a gzip member with a file name and a header CRC (FNAME | FHCRC)
GzipEncodeNamed(b, name) ==
    LET head == <<31, 139, 8, 10, 0, 0, 0, 0, 0, 255>> \o name \o <<0>>
        hcrc == WordBytes(ChecksumIEEE(head))
    IN  head \o <<hcrc[1], hcrc[2]>> \o Drop(GzipEncode(b), 10)

\* a gzip member with a file name and no header CRC (FNAME)
GzipEncodeNameOnly(b, name) ==
    <<31, 139, 8, 8, 0, 0, 0, 0, 0, 255>> \o name \o <<0>> \o Drop(GzipEncode(b), 10)

\* a file name of n letters 'a'
LongName(n) == [i \in 1..n |-> 97]

\* a gzip member whose content is split over two stored blocks
GzipEncodeTwoBlocks(a, b) ==
    <<31, 139, 8, 0, 0, 0, 0, 0, 0, 255>>
    \o <<0, Len(a), 0, 255 - Len(a), 255>> \o a
    \o <<1, Len(b), 0, 255 - Len(b), 255>> \o b
    \o WordBytes(ChecksumIEEE(a \o b))
    \o NatBytes(Len(a \o b))

\* s with its i-th byte replaced by v
Patch(s, i, v) == [s EXCEPT ![i] = v]

\* valid gzip streams, each with the content it encodes
GzipSamples ==
    { [content |-> Para, body |-> GzipEncode(Para)],
      [content |-> Para, body |-> GzipEncode(<<60>>) \o GzipEncode(<<112, 62>>)],
      [content |-> Para, body |-> GzipEncodeNamed(Para, <<97>>)],
      [content |-> Para, body |-> GzipEncodeTwoBlocks(<<60, 112>>, <<62>>)],
      [content |-> Para, body |-> GzipEncodeNameOnly(Para, LongName(gzipBufLen - 1))] }

\* bodies that are valid gzip streams
ValidGzipBodies == {g.body : g \in GzipSamples}

\* bodies whose first gzip header is unreadable
BadHeaderBodies ==
    { <<>>,
      ParaHello,
      Patch(GzipEncode(Para), 2, 140),
      Patch(GzipEncodeNamed(Para, <<97>>), 13, 0),
      GzipEncodeNameOnly(Para, LongName(gzipBufLen)) }

\* bodies with a readable first header and a corrupted stream after it
BadStreamBodies ==
    { Patch(GzipEncode(Para), 19, 0),
      Take(GzipEncode(Para), 17),
      Patch(GzipEncode(Para), 14, 0),
      GzipEncode(Para) \o <<0>> }

Bodies == ValidGzipBodies \cup BadHeaderBodies \cup BadStreamBodies

Sites == [ContentEncoding : ContentEncodings, ContentType : ContentTypes, Body : Bodies]

\* a response without a Location header
Response(s, status) ==
    [StatusCode |-> status, Location |-> <<>>, ContentEncoding |-> s.ContentEncoding,
     ContentType |-> s.ContentType, Body |-> s.Body]

\* a redirect: a 302 with a Location header and a short HTML page as its body
RedirectResponse(loc) ==
    [StatusCode |-> 302, Location |-> loc, ContentEncoding |-> <<>>,
     ContentType |-> TextHTML, Body |-> ParaHello]

\* the n redirects to loc the server answers with
Redirects(n, loc) == [i \in 1..n |-> RedirectResponse(loc)]

(***************************************************************************)
(* FromURL.                                                                *)
(***************************************************************************)
\* Article{}
EmptyArticle == [Content |-> <<>>, URL |-> None]

\* the stages, in the order of the code
Stages == <<"validate", "build", "transport", "normalize", "gate", "parse">>

\* only the most recently deferred call runs
DeferredCallsLastOnly(d) ==
    IF d = <<>> THEN <<>> ELSE <<"close " \o d[Len(d)]>>

\* the deferred calls run in the order they were registered
DeferredCallsFIFO(d) == [i \in 1..Len(d) |-> "close " \o d[i]]

\* the deferred calls run at a return, last registered first
RECURSIVE DeferredCalls(_)
DeferredCalls(d) ==
    IF d = <<>> THEN <<>>
    ELSE <<"close " \o d[Len(d)]>> \o DeferredCalls(Take(d, Len(d) - 1))

\* `return article, err`: the deferred calls run, then the caller has the pair
Return(stage, article, err) ==
    /\ result' = [Article |-> article, err |-> err]
    /\ trace' = (trace \o <<stage>>) \o DeferredCalls(defers)
    /\ defers' = <<>>
    /\ pc' = "done"

Init ==
    /\ pageURL \in URLStrings
    /\ pc = "validate"
    /\ parsedURL = None
    /\ req = None
    /\ resp = None
    /\ reader = "none"
    /\ defers = <<>>
    /\ trace = <<>>
    /\ sent = <<>>
    /\ redirected = 0
    /\ received = <<>>
    /\ delivered = None
    /\ result = None
    /\ engine = "unknown"

\* the validation error is ignored and the call goes on
FromURL_ValidateNoReturn ==
    /\ pc = "validate"
    /\ parsedURL' = ParseRequestURI(pageURL)
    /\ trace' = Append(trace, "validate")
    /\ pc' = "build"
    /\ UNCHANGED <<result, defers>>
    /\ UNCHANGED <<pageURL, req, resp, reader, sent, redirected, received, delivered, engine>>

\* parsedURL, err := nurl.ParseRequestURI(pageURL)
FromURL_Validate ==
    /\ pc = "validate"
    /\ LET u == ParseRequestURI(pageURL)
       IN  IF u.err # ""
           THEN /\ Return("validate", EmptyArticle, "InvalidURL")
                /\ UNCHANGED parsedURL
           ELSE /\ parsedURL' = u
                /\ trace' = Append(trace, "validate")
                /\ pc' = "build"
                /\ UNCHANGED <<result, defers>>
    /\ UNCHANGED <<pageURL, req, resp, reader, sent, redirected, received, delivered, engine>>

\* http.NewRequest("GET", pageURL, nil): the request, or None when it fails
NewRequest(method, url) ==
    LET u == Parse(url)
    IN  IF u.err # "" THEN None
        ELSE [Method |-> method,
              URL |-> [u EXCEPT !.Host = removeEmptyPort(u.Host)],
              Header |-> <<>>]

\* the header is never set
HeaderSetOmitted(r, key, value) == r

\* req.Header.Set(key, value): the entry replaces any entry with the same key
HeaderSet(r, key, value) ==
    [r EXCEPT !.Header = Append(SelectSeq(@, LAMBDA h : h.key # key),
                                [key |-> key, value |-> value])]

\* req.Header.Get(key): "" (here <<>>) when the key is absent
HeaderGet(r, key) ==
    IF \E i \in 1..Len(r.Header) : r.Header[i].key = key
    THEN r.Header[CHOOSE i \in 1..Len(r.Header) : r.Header[i].key = key].value
    ELSE <<>>

\* client := &http.Client{...}; req, err := http.NewRequest(...); req.Header.Set(...)
FromURL_NewRequest ==
    /\ pc = "build"
    /\ LET r == NewRequest("GET", pageURL)
       IN  IF r = None
           THEN /\ Return("build", EmptyArticle, "RequestBuildError")
                /\ UNCHANGED req
           ELSE /\ req' = HeaderSet(r, "Accept-Encoding", GzipToken)
                /\ trace' = Append(trace, "build")
                /\ pc' = "do"
                /\ UNCHANGED <<result, defers>>
    /\ UNCHANGED <<pageURL, parsedURL, resp, reader, sent, redirected, received, delivered, engine>>

\* http.Transport.roundTrip refuses a request it cannot route before it dials
Routable(r) == r.URL.Scheme \in {<<"http">>, <<"https">>} /\ r.URL.Host # <<>>

\* URL.String (no userinfo, query or fragment on the token alphabet; no
\* character of the alphabet is escaped in a host or a path)
URLString(u) ==
    LET scheme == IF u.Scheme # <<>> THEN u.Scheme \o <<":">> ELSE <<>>
        host == IF u.Scheme # <<>> \/ u.Host # <<>>
                THEN IF u.OmitHost /\ u.Host = <<>> THEN <<>>
                     ELSE (IF u.Host # <<>> \/ u.Path # <<>> THEN <<"/", "/">> ELSE <<>>)
                          \o u.Host
                ELSE <<>>
        slash == IF u.Path # <<>> /\ u.Path[1] # "/" /\ u.Host # <<>> THEN <<"/">> ELSE <<>>
        segment == IF Index(u.Path, "/") = 0 THEN u.Path ELSE Take(u.Path, Index(u.Path, "/") - 1)
        dot == IF scheme \o host \o slash = <<>> /\ Contains(segment, <<":">>)
               THEN <<".", "/">> ELSE <<>>
    IN  IF u.Opaque # <<>> THEN scheme \o u.Opaque
        ELSE scheme \o host \o slash \o dot \o u.Path

\* url.resolvePath (the alphabet has no '.', so no segment is removed)
resolvePath(base, ref) ==
    LET full == IF ref = <<>> THEN base
                ELSE IF ref[1] # "/" THEN Take(base, LastIndex(base, "/")) \o ref
                ELSE ref
    IN  IF full = <<>> THEN <<>>
        ELSE IF full[1] = "/" THEN full
        ELSE <<"/">> \o full

\* URL.ResolveReference
ResolveReference(u, ref) ==
    IF ref.Scheme # <<>> \/ ref.Host # <<>>
    THEN [ref EXCEPT !.Scheme = IF ref.Scheme = <<>> THEN u.Scheme ELSE @,
                     !.Path = resolvePath(ref.Path, <<>>)]
    ELSE IF ref.Opaque # <<>>
    THEN [ref EXCEPT !.Scheme = u.Scheme, !.Host = <<>>, !.Path = <<>>]
    ELSE IF ref.Path = <<>> /\ u.Opaque # <<>>
    THEN [ref EXCEPT !.Scheme = u.Scheme, !.Opaque = u.Opaque, !.Host = <<>>, !.Path = <<>>]
    ELSE [ref EXCEPT !.Scheme = u.Scheme, !.Host = u.Host,
                     !.Path = resolvePath(u.Path, ref.Path)]

\* http.refererForURL: the Referer of a request to newReq that follows a
\* request to lastReq; "" (here <<>>) from https to http
refererForURL(lastReq, newReq) ==
    IF lastReq.Scheme = <<"https">> /\ newReq.Scheme = <<"http">> THEN <<>>
    ELSE URLString(lastReq)

\* the ten-request limit of the client's default redirect policy
\* (defaultCheckRedirect: len(via) >= 10)
maxRedirectRequests == 10

\* the request that follows a redirect carries none of the first request's headers
RedirectRequestNoHeaders(first, last, loc) ==
    [Method |-> first.Method,
     URL |-> ResolveReference(last.URL, Parse(loc)),
     Header |-> <<>>]

\* Client.do: the request that follows a redirect of `last` to loc. It keeps
\* the method (a GET stays a GET on 301, 302, 303, 307 and 308), copies the
\* headers of the first request and sets Referer when refererForURL names one.
RedirectRequest(first, last, loc) ==
    LET u == ResolveReference(last.URL, Parse(loc))
        r == [Method |-> first.Method, URL |-> u, Header |-> first.Header]
        ref == refererForURL(last.URL, u)
    IN  IF ref # <<>> THEN HeaderSet(r, "Referer", ref) ELSE r

\* the requests client.Do sends when n redirects to loc are followed
RECURSIVE Requests(_, _, _)
Requests(first, n, loc) ==
    IF n = 0 THEN <<first>>
    ELSE LET before == Requests(first, n - 1, loc)
         IN  Append(before, RedirectRequest(first, before[Len(before)], loc))

\* resp, err := client.Do(req); defer resp.Body.Close()
\* The server answers n times with a redirect to loc. The client drains and
\* closes the redirect's body and follows it with a new request, unless
\*   - loc does not parse: client.Do ends with "failed to parse Location
\*     header", no response and an error;
\*   - it has sent maxRedirectRequests requests: client.Do ends with "stopped
\*     after 10 redirects", the redirect response with its body closed and an
\*     error.
\* A request the transport cannot route fails. Every request after the first
\* has the scheme and host of the second, so it is routable if the second is.
\* Otherwise the last request fails (resp is nil) or gets the response
\* client.Do returns.
FromURL_Do ==
    /\ pc = "do"
    /\ \E n \in 0..MaxRedirects, loc \in Locations :
          /\ n > 0 => Routable(req)
          /\ IF n > 0 /\ Parse(loc).err # ""
             THEN /\ sent' = <<req>>
                  /\ redirected' = 1
                  /\ received' = Redirects(1, loc)
                  /\ resp' = None
                  /\ Return("transport", EmptyArticle, "FetchError")
             ELSE IF n > 0 /\ ~Routable(RedirectRequest(req, req, loc))
             THEN /\ sent' = Requests(req, 1, loc)
                  /\ redirected' = 1
                  /\ received' = Redirects(1, loc)
                  /\ resp' = None
                  /\ Return("transport", EmptyArticle, "FetchError")
             ELSE IF n >= maxRedirectRequests
             THEN /\ sent' = Requests(req, maxRedirectRequests - 1, loc)
                  /\ redirected' = maxRedirectRequests
                  /\ received' = Redirects(maxRedirectRequests, loc)
                  /\ resp' = RedirectResponse(loc)
                  /\ Return("transport", EmptyArticle, "FetchError")
             ELSE /\ sent' = Requests(req, n, loc)
                  /\ redirected' = n
                  /\ \/ /\ resp' = None
                        /\ received' = Redirects(n, loc)
                        /\ Return("transport", EmptyArticle, "FetchError")
                     \/ /\ Routable(req)
                        /\ \E s \in Sites, status \in StatusCodes :
                              /\ resp' = Response(s, status)
                              /\ received' = Append(Redirects(n, loc), Response(s, status))
                        /\ defers' = Append(defers, "body")
                        /\ trace' = Append(trace, "transport")
                        /\ pc' = "normalize"
                        /\ UNCHANGED result
    /\ UNCHANGED <<pageURL, parsedURL, req, reader, delivered, engine>>

\* any encoding list that names gzip is unwrapped
IsGzipContains(encoding) == Contains(encoding, GzipToken)

\* case "gzip":
IsGzip(encoding) == encoding = GzipToken

\* switch resp.Header.Get("Content-Encoding") { case "gzip": ... default: ... }
FromURL_Normalize ==
    /\ pc = "normalize"
    /\ IF IsGzip(resp.ContentEncoding)
       THEN IF NewReader(resp.Body) # ""
            THEN /\ Return("normalize", EmptyArticle, "DecodeError")
                 /\ UNCHANGED reader
            ELSE /\ reader' = "gzip"
                 /\ defers' = Append(defers, "gzip")
                 /\ trace' = Append(trace, "normalize")
                 /\ pc' = "gate"
                 /\ UNCHANGED result
       ELSE /\ reader' = "body"
            /\ trace' = Append(trace, "normalize")
            /\ pc' = "gate"
            /\ UNCHANGED <<result, defers>>
    /\ UNCHANGED <<pageURL, parsedURL, req, resp, sent, redirected, received, delivered, engine>>

\* the media type is compared for equality
IsHTMLExact(cp) == cp = TextHTML

\* strings.Contains(cp, "text/html")
IsHTML(cp) == Contains(cp, TextHTML)

\* error statuses are rejected at the gate
GatePassesOKOnly(r) == r.StatusCode < 400 /\ Contains(r.ContentType, TextHTML)

\* cp := resp.Header.Get("Content-Type"); strings.Contains(cp, "text/html")
GatePasses(r) == IsHTML(r.ContentType)

\* cp := resp.Header.Get("Content-Type"); if !strings.Contains(cp, "text/html") {...}
FromURL_Gate ==
    /\ pc = "gate"
    /\ IF ~GatePasses(resp)
       THEN Return("gate", EmptyArticle, "UnsupportedContentType")
       ELSE /\ trace' = Append(trace, "gate")
            /\ pc' = "parse"
            /\ UNCHANGED <<result, defers>>
    /\ UNCHANGED <<pageURL, parsedURL, req, resp, reader, sent, redirected, received, delivered, engine>>

\* what reading `reader` to its end yields: the bytes, and "EOF" or the error
ReadAll(rd, body) ==
    IF rd = "gzip" THEN gzipRead(body) ELSE [data |-> body, err |-> "EOF"]

\* Parser.Parse(input, pageURL): the engine reads the stream to its end; a failed
\* read is a ParseError, and otherwise the engine accepts or rejects the document.
\* The engine is handed the stream and the URL, never the response.
ParserParse(stream, url, accepts) ==
    IF stream.err # "EOF" \/ ~accepts
    THEN [Article |-> EmptyArticle, err |-> "ParseError"]
    ELSE [Article |-> [Content |-> stream.data, URL |-> url], err |-> "nil"]

\* parser := NewParser(); return parser.Parse(reader, parsedURL)
FromURL_Parse ==
    /\ pc = "parse"
    /\ LET stream == ReadAll(reader, resp.Body)
       IN  \E accepts \in BOOLEAN :
          LET r == ParserParse(stream, parsedURL, accepts)
          IN  /\ engine' = IF accepts THEN "accepts" ELSE "rejects"
              /\ delivered' = stream.data
              /\ Return("parse", r.Article, r.err)
    /\ UNCHANGED <<pageURL, parsedURL, req, resp, reader, sent, redirected, received>>

Next ==
    \/ FromURL_Validate
    \/ FromURL_NewRequest
    \/ FromURL_Do
    \/ FromURL_Normalize
    \/ FromURL_Gate
    \/ FromURL_Parse

Spec == Init /\ [][Next]_vars

(***************************************************************************)
(* The claims.                                                             *)
(***************************************************************************)
Done == pc = "done"

\* how often event e occurs in the trace of this invocation
Count(e) == Cardinality({i \in 1..Len(trace) : trace[i] = e})

\* the position of the first occurrence of event e
Pos(e) == CHOOSE i \in 1..Len(trace) : trace[i] = e /\ \A j \in 1..(i - 1) : trace[j] # e

Ran(stage) == Count(stage) > 0

IsStage(e) == \E k \in 1..Len(Stages) : Stages[k] = e

\* the stages that ran, in order, without the close events
StagesRun == SelectSeq(trace, IsStage)

\* client.Do returned a response and no error
GotResponse == resp # None /\ (Done => result.err # "FetchError")

\* an absolute URL: a scheme, "://", and a non-empty authority
IsAbsoluteURL(u) ==
    \E i \in 2..Len(u) :
        /\ \A j \in 1..(i - 1) : u[j] \in Letters
        /\ Len(u) >= i + 3
        /\ u[i] = ":" /\ u[i + 1] = "/" /\ u[i + 2] = "/" /\ u[i + 3] # "/"

\* C1: every string that is not an absolute URL (scheme and authority both
\* present) makes FromURL return InvalidURL without the transport being called.
C1_NonAbsoluteIsInvalidURL ==
    Done /\ ~IsAbsoluteURL(pageURL) => result.err = "InvalidURL" /\ sent = <<>>

\* C2: when a response was obtained its body is closed exactly once on every
\* exit path, the gzip wrapper is closed exactly once if it was created and
\* never otherwise, and nothing is closed when there was no response.
C2_ClosedExactlyOnce ==
    /\ Count("close body") <= 1 /\ Count("close gzip") <= 1
    /\ Done =>
        /\ Count("close body") = (IF GotResponse THEN 1 ELSE 0)
        /\ Count("close gzip") = (IF reader = "gzip" THEN 1 ELSE 0)
        /\ defers = <<>>

\* a gzip wrapper was created and the call ended at the media-type gate
C2_Witness ==
    Done /\ reader = "gzip" /\ result.err = "UnsupportedContentType" /\ Count("close gzip") = 1

\* C3: whenever a gzip wrapper was created it is closed before the response
\* body, and both are closed after the parser, if invoked, has returned.
C3_CloseOrder ==
    Done /\ reader = "gzip" =>
        /\ Ran("close gzip") /\ Ran("close body")
        /\ Pos("close gzip") < Pos("close body")
        /\ Ran("parse") => Pos("parse") < Pos("close gzip") /\ delivered # None

\* the parser ran on a gzip stream and both closes followed
C3_Witness ==
    Done /\ reader = "gzip" /\ Ran("parse") /\ result.err = "nil" /\ Ran("close body")

\* C4 as stated: Parse is invoked only for a Content-Type containing "text/html";
\* every such value is accepted, and every other value ends the call with
\* UnsupportedContentType without Parse being called.
C4_GateDecidesOutcome ==
    Done /\ GotResponse =>
        /\ Ran("parse") => Contains(resp.ContentType, TextHTML)
        /\ Contains(resp.ContentType, TextHTML) => result.err # "UnsupportedContentType"
        /\ ~Contains(resp.ContentType, TextHTML) =>
              result.err = "UnsupportedContentType" /\ ~Ran("parse")

\* C4 amended: Parse is invoked only for a Content-Type containing "text/html";
\* every such value passes the gate when the gate is reached; every other value
\* ends the call without Parse being called, with UnsupportedContentType unless
\* gzip wrapping had already failed (Content-Encoding gzip, unreadable gzip
\* header), which ends it with DecodeError before the gate is reached.
C4_GateAfterNormalizer ==
    Done /\ GotResponse =>
        /\ Ran("parse") => Contains(resp.ContentType, TextHTML)
        /\ Contains(resp.ContentType, TextHTML) =>
              /\ result.err # "UnsupportedContentType"
              /\ Ran("gate") => Ran("parse")
        /\ ~Contains(resp.ContentType, TextHTML) =>
              /\ ~Ran("parse")
              /\ IF resp.ContentEncoding = GzipToken /\ resp.Body \in BadHeaderBodies
                 THEN result.err = "DecodeError" /\ ~Ran("gate")
                 ELSE result.err = "UnsupportedContentType"

\* "text/html; charset=utf-8" passed the gate and the parser ran
C4_Witness ==
    Done /\ GotResponse /\ resp.ContentType = TextHTMLCharset /\ Ran("parse")

\* C5 as stated: a response with Content-Type text/plain fails with
\* UnsupportedContentType for every Content-Encoding and every body.
C5_TextPlainAlwaysUnsupported ==
    Done /\ GotResponse /\ resp.ContentType = TextPlain =>
        result.err = "UnsupportedContentType"

\* C5 amended: a response with Content-Type text/plain fails with
\* UnsupportedContentType for every Content-Encoding and every body, except
\* that Content-Encoding gzip with an unreadable gzip header fails with
\* DecodeError first.
C5_TextPlainUnsupportedUnlessBadHeader ==
    Done /\ GotResponse /\ resp.ContentType = TextPlain =>
        IF resp.ContentEncoding = GzipToken /\ resp.Body \in BadHeaderBodies
        THEN result.err = "DecodeError"
        ELSE result.err = "UnsupportedContentType"

\* text/plain, declared gzip, a stream corrupted after its header: rejected at the gate
C5_Witness ==
    /\ Done /\ GotResponse /\ resp.ContentType = TextPlain
    /\ resp.ContentEncoding = GzipToken /\ resp.Body \in BadStreamBodies
    /\ result.err = "UnsupportedContentType"

\* C6 as stated: a response that declares gzip with a corrupted payload, in
\* the header or later in the stream, fails with DecodeError for every
\* Content-Type.
C6_CorruptGzipIsDecodeError ==
    Done /\ GotResponse /\ resp.ContentEncoding = GzipToken
         /\ resp.Body \in BadHeaderBodies \cup BadStreamBodies =>
        result.err = "DecodeError"

\* C6 amended: a response that declares gzip and whose gzip header is
\* unreadable fails with DecodeError for every Content-Type; a corruption after
\* the header is not seen by FromURL: the call fails with
\* UnsupportedContentType when the Content-Type lacks "text/html", and otherwise
\* the stream goes to the parser and the call returns the parser's result,
\* not a DecodeError.
C6_BadHeaderIsDecodeError ==
    Done /\ GotResponse /\ resp.ContentEncoding = GzipToken =>
        /\ resp.Body \in BadHeaderBodies => result.err = "DecodeError" /\ ~Ran("gate")
        /\ resp.Body \in BadStreamBodies =>
              IF Contains(resp.ContentType, TextHTML)
              THEN Ran("parse") /\ result.err # "DecodeError"
              ELSE result.err = "UnsupportedContentType"

\* an HTML response, declared gzip, with a bad magic number in the gzip header
C6_Witness ==
    /\ Done /\ GotResponse /\ resp.ContentEncoding = GzipToken
    /\ resp.ContentType = TextHTML
    /\ resp.Body = Patch(GzipEncode(Para), 2, 140)
    /\ result.err = "DecodeError"

\* C7: the bytes handed to the engine are the logical content: the
\* decompressed bytes when Content-Encoding is exactly "gzip" and the body is
\* valid gzip, the raw body for every other Content-Encoding value.
C7_DeliveredIsLogicalContent ==
    Done /\ Ran("parse") =>
        /\ resp.ContentEncoding = GzipToken =>
              \A g \in GzipSamples : resp.Body = g.body => delivered = g.content
        /\ resp.ContentEncoding # GzipToken => delivered = resp.Body

\* a two-member gzip stream was decoded to its content and parsed
C7_Witness ==
    /\ Done /\ Ran("parse") /\ resp.ContentEncoding = GzipToken
    /\ resp.Body = GzipEncode(<<60>>) \o GzipEncode(<<112, 62>>)
    /\ delivered = Para /\ result.err = "nil"

\* the header Accept-Encoding: gzip is on request r
CarriesAcceptGzip(r) ==
    \E i \in 1..Len(r.Header) :
        r.Header[i] = [key |-> "Accept-Encoding", value |-> GzipToken]

\* C8 as stated: once the request was built, exactly one GET request carrying
\* Accept-Encoding: gzip is executed by the transport, whatever the outcome.
C8_ExactlyOneRequest ==
    /\ req = None => sent = <<>>
    /\ Done /\ req # None =>
        /\ Len(sent) = 1
        /\ sent[1].Method = "GET"
        /\ CarriesAcceptGzip(sent[1])

\* C8 amended: once the request was built, client.Do is called exactly once and
\* none of its outcomes (failure, timeout, rejected content type, decode or
\* parse error) causes a retry; inside that call the transport executes the GET
\* request for the page URL and at most one more GET request for each redirect
\* the server answers with, ten requests at most, every one carrying
\* Accept-Encoding: gzip (and Referer, the URL redirected from, except from
\* https to http). A response is returned only when every redirect was
\* followed; without a redirect exactly one request is executed.
C8_OneDoCallRedirectsFollowed ==
    /\ pc \in {"validate", "build", "do"} => sent = <<>> /\ redirected = 0
    /\ req = None => sent = <<>>
    /\ pc \notin {"validate", "build", "do"} /\ req # None =>
        /\ Count("transport") = 1
        /\ sent[1] = req
        /\ Len(sent) >= 1 /\ Len(sent) <= maxRedirectRequests
        /\ Len(sent) <= redirected + 1
        /\ redirected <= Len(sent)
        /\ redirected = 0 => Len(sent) = 1
        /\ GotResponse => Len(sent) = redirected + 1
        /\ redirected = Len(sent) => result.err = "FetchError"
        /\ \A i \in 1..Len(sent) :
              sent[i].Method = "GET" /\ CarriesAcceptGzip(sent[i])
        /\ \A i \in 2..Len(sent) :
              HeaderGet(sent[i], "Referer") =
                 IF sent[i - 1].URL.Scheme = <<"https">> /\ sent[i].URL.Scheme = <<"http">>
                 THEN <<>>
                 ELSE URLString(sent[i - 1].URL)

\* two redirects were followed and the third request got the page
C8_Witness ==
    Done /\ GotResponse /\ redirected = 2 /\ Len(sent) = 3 /\ result.err = "nil"

\* the parser failed after a request that was not redirected
C8_NoRedirectWitness ==
    Done /\ req # None /\ result.err = "ParseError" /\ Len(sent) = 1 /\ redirected = 0

\* the tenth request was answered with a redirect: client.Do gave up
C8_RedirectLimitWitness ==
    /\ Done /\ redirected = maxRedirectRequests /\ Len(sent) = maxRedirectRequests
    /\ result.err = "FetchError" /\ resp # None /\ Count("close body") = 0

\* the Location of the first redirect did not parse: one request, no response
C8_BadLocationWitness ==
    Done /\ redirected = 1 /\ Len(sent) = 1 /\ resp = None /\ result.err = "FetchError"

\* the redirect led to a URL without a host: the second request failed
C8_UnroutableLocationWitness ==
    /\ Done /\ redirected = 1 /\ Len(sent) = 2 /\ sent[2].URL.Host = <<>>
    /\ result.err = "FetchError"

\* a redirect from https to http was followed without a Referer
C8_NoRefererWitness ==
    /\ Done /\ GotResponse /\ Len(sent) = 2
    /\ sent[1].URL.Scheme = <<"https">> /\ sent[2].URL.Scheme = <<"http">>
    /\ HeaderGet(sent[2], "Referer") = <<>>

\* a redirect to a relative path was followed on the same host
C8_RelativeLocationWitness ==
    /\ Done /\ GotResponse /\ Len(sent) = 2
    /\ sent[2].URL.Host = sent[1].URL.Host /\ sent[2].URL.Path = <<"/", "8">>
    /\ HeaderGet(sent[2], "Referer") = URLString(sent[1].URL)

\* the error each stage returns
StageError(stage) ==
    CASE stage = "validate" -> "InvalidURL"
      [] stage = "build" -> "RequestBuildError"
      [] stage = "transport" -> "FetchError"
      [] stage = "normalize" -> "DecodeError"
      [] stage = "gate" -> "UnsupportedContentType"
      [] stage = "parse" -> "ParseError"

\* C9: the stages run in the order validate, build, transport, normalize,
\* gate, parse; the error returned is that of the first stage that fails, no
\* stage runs after it, and a failure before parse returns an empty Article.
C9_FailFastStageOrder ==
    /\ Len(StagesRun) <= Len(Stages)
    /\ StagesRun = Take(Stages, Len(StagesRun))
    /\ Done =>
        /\ StagesRun # <<>>
        /\ result.err # "nil" =>
              /\ result.err = StageError(StagesRun[Len(StagesRun)])
              /\ result.Article = EmptyArticle
        /\ result.err = "nil" => StagesRun = Stages
        /\ ParseRequestURI(pageURL).err # "" => StagesRun = <<"validate">>
        /\ Parse(pageURL).err # "" => ~Ran("transport")
        /\ GotResponse /\ ~Contains(resp.ContentType, TextHTML) => ~Ran("parse")

\* the gate failed after four stages had succeeded
C9_Witness ==
    /\ Done /\ result.err = "UnsupportedContentType"
    /\ StagesRun = Take(Stages, 5)

\* the content a body stands for under a Content-Encoding
LogicalContent(encoding, body) ==
    IF encoding = GzipToken
    THEN (CHOOSE g \in GzipSamples : g.body = body).content
    ELSE body

\* the error that the two headers, the body and the engine's verdict on the
\* content determine
OutcomeOf(encoding, contentType, body, verdict) ==
    IF encoding = GzipToken /\ body \in BadHeaderBodies THEN "DecodeError"
    ELSE IF ~Contains(contentType, TextHTML) THEN "UnsupportedContentType"
    ELSE IF encoding = GzipToken /\ body \in BadStreamBodies THEN "ParseError"
    ELSE IF verdict = "rejects" THEN "ParseError"
    ELSE "nil"

\* a response the client follows: a redirect status with a Location header
IsFollowed(r) == r.StatusCode \in {301, 302, 303, 307, 308} /\ r.Location # <<>>

\* C10 as stated: no status-code filtering: whatever its status code, a
\* response received from the server goes through normalization, the gate and
\* the parser, and the outcome is the one its Content-Encoding header, its
\* Content-Type header and its body determine, never its status code.
C10_StatusCodeIgnored ==
    Done =>
        \A i \in 1..Len(received) :
            /\ Ran("normalize")
            /\ result.err = OutcomeOf(received[i].ContentEncoding, received[i].ContentType,
                                      received[i].Body, engine)

\* C10 amended: FromURL itself filters no status code: every response client.Do
\* returns, whatever its status code (2xx, 4xx, 5xx, a 3xx without Location),
\* goes through normalization, the gate and the parser, and the outcome is a
\* function of its Content-Encoding header, its Content-Type header and its
\* body (and of the engine's verdict on the content, which the engine reaches
\* without seeing the response) that has no status argument. The status code
\* does matter inside client.Do: a redirect status with a Location header is
\* consumed by the client and never reaches normalization; the outcome is then
\* that of the response that ends the chain of redirects, or FetchError when
\* the chain ends without one.
C10_NoFilteringButRedirectsFollowed ==
    /\ Len(received) >= redirected
    /\ \A i \in 1..redirected : IsFollowed(received[i])
    /\ Done =>
        /\ GotResponse <=> Len(received) = redirected + 1
        /\ ~GotResponse => (received # <<>> => result.err = "FetchError" /\ ~Ran("normalize"))
        /\ GotResponse =>
            /\ resp = received[Len(received)]
            /\ ~IsFollowed(resp)
            /\ resp.StatusCode \in StatusCodes
            /\ Ran("normalize")
            /\ result.err = OutcomeOf(resp.ContentEncoding, resp.ContentType, resp.Body, engine)
            /\ result.err # "DecodeError" => Ran("gate")
            /\ result.err \notin {"DecodeError", "UnsupportedContentType"} => Ran("parse")
            /\ result.Article =
                  IF result.err = "nil"
                  THEN [Content |-> LogicalContent(resp.ContentEncoding, resp.Body),
                        URL |-> parsedURL]
                  ELSE EmptyArticle

\* a 302 with a Location and an HTML body was followed, and the 404 that ended
\* the chain was rejected at the gate: the outcome is that of the 404
C10_Witness ==
    /\ Done /\ GotResponse /\ redirected = 1
    /\ IsFollowed(received[1]) /\ received[1].ContentType = TextHTML
    /\ resp.StatusCode = 404 /\ resp.ContentType = TextPlain
    /\ result.err = "UnsupportedContentType"

\* a 500 response with a gzip-encoded HTML body was parsed into an article
C10_ErrorStatusWitness ==
    /\ Done /\ GotResponse /\ resp.StatusCode = 500
    /\ resp.ContentEncoding = GzipToken /\ result.err = "nil"
    /\ result.Article.Content = Para

\* a 302 response without a Location that is not HTML was rejected at the gate,
\* as a 200 is
C10_RedirectStatusWitness ==
    /\ Done /\ GotResponse /\ resp.StatusCode = 302
    /\ resp.ContentType = TextPlain /\ result.err = "UnsupportedContentType"

====
